---- MODULE Spec2Model ----
(***************************************************************************)
(* A model of the compact-trie search engine: the radix trie with its      *)
(* text persistence (compact_trie.py), the indexer (indexer.py) and the    *)
(* Boolean retriever with z-score ranking (RI.py).                         *)
(*                                                                         *)
(* Strings are sequences of one-character strings.  A trie is the sequence *)
(* of its TrieNode objects: a node is named by its position, the root is   *)
(* node 1, and a children dictionary is a function from key characters to  *)
(* node positions.                                                         *)
(***************************************************************************)
EXTENDS Integers, Sequences, FiniteSets, TLC

\* ------------------------------------------------------------------------
\* Bounds
\* ------------------------------------------------------------------------
MaxInserts == 3

\* The resolution of an inexact square root.
SqrtScale == 1000

\* The longest token stream given to _to_rpn, besides the named examples.
MaxRpnTokens == 5

\* The longest query given to search, in tokens, besides the named examples.
MaxQueryTokens == 3

\* The largest document id among the candidates given to _rank_results.
MaxDocId == 4

\* The largest term frequency given to _calculate_z_score.
MaxTf == 3

\* ------------------------------------------------------------------------
\* Characters and strings
\* ------------------------------------------------------------------------
Alphabet ==
    << "a", "b", "c", "d", "e", "f", "g", "h", "i", "j", "k", "l", "m",
       "n", "o", "p", "q", "r", "s", "t", "u", "v", "w", "x", "y", "z" >>

\* Position of a character in a..z: the order sorted() gives to the keys.
Ord(ch) ==
    CHOOSE i \in 1..Len(Alphabet) : Alphabet[i] = ch

\* s[i:] of Python, with i counted from 0.
Drop(s, i) ==
    SubSeq(s, i + 1, Len(s))

\* s[:i] of Python.
Take(s, i) ==
    SubSeq(s, 1, i)

Min(a, b) ==
    IF a < b THEN a ELSE b

\* ------------------------------------------------------------------------
\* compact_trie.py: TrieNode, CompactTrie
\* ------------------------------------------------------------------------
NoChildren ==
    [ch \in {} |-> 0]

TrieNode ==
    [label |-> << >>, children |-> NoChildren,
     is_terminal |-> FALSE, inverted_index |-> << >>]

\* CompactTrie.__init__: a trie whose only node is the root.
CompactTrie ==
    << TrieNode >>

root ==
    1

RECURSIVE mismatch_from(_, _, _)
mismatch_from(word, label, i) ==
    IF i < Min(Len(word), Len(label)) /\ word[i + 1] = label[i + 1]
    THEN mismatch_from(word, label, i + 1)
    ELSE i

\* _find_mismatch_point finding no common prefix at all.
find_mismatch_point_none(word, label) ==
    0

find_mismatch_point(word, label) ==
    mismatch_from(word, label, 0)

\* A new terminal node holding one posting.
NewTerminal(label, doc_id, frequency) ==
    [label |-> label, children |-> NoChildren,
     is_terminal |-> TRUE, inverted_index |-> << <<doc_id, frequency>> >>]

\* split_prefix with step 2 left out: the old child keeps its whole label.
split_prefix_keeps_label(nodes, current_node, child_node, remaining_word, doc_id, frequency) ==
    LET new_node == Len(nodes) + 1
        child_label == nodes[child_node].label
        mismatch_idx == find_mismatch_point(remaining_word, child_label)
        remaining_label == Drop(child_label, mismatch_idx)
        n == [NewTerminal(remaining_word, doc_id, frequency) EXCEPT
                 !.children = (remaining_label[1] :> child_node) @@ @]
    IN Append(
           [nodes EXCEPT
               ![current_node].children = (remaining_word[1] :> new_node) @@ @],
           n)

\* Case B of insert: remaining_word is a proper prefix of the child's label.
\* A new terminal node takes the child's place and the child, its label
\* shortened, becomes the new node's only child.
split_prefix(nodes, current_node, child_node, remaining_word, doc_id, frequency) ==
    LET new_node == Len(nodes) + 1
        child_label == nodes[child_node].label
        mismatch_idx == find_mismatch_point(remaining_word, child_label)
        remaining_label == Drop(child_label, mismatch_idx)
        n == [NewTerminal(remaining_word, doc_id, frequency) EXCEPT
                 !.children = (remaining_label[1] :> child_node) @@ @]
    IN Append(
           [nodes EXCEPT
               ![child_node].label = remaining_label,
               ![current_node].children = (remaining_word[1] :> new_node) @@ @],
           n)

\* split_diverge with the split node labelled with the child's whole label
\* instead of the common prefix.
split_diverge_whole_label(nodes, current_node, child_node, remaining_word, doc_id, frequency) ==
    LET split_node == Len(nodes) + 1
        new_node == Len(nodes) + 2
        child_label == nodes[child_node].label
        mismatch_idx == find_mismatch_point(remaining_word, child_label)
        rest_label == Drop(child_label, mismatch_idx)
        new_word_part == Drop(remaining_word, mismatch_idx)
        s == [TrieNode EXCEPT
                 !.label = child_label,
                 !.children = (new_word_part[1] :> new_node) @@
                              (rest_label[1] :> child_node)]
    IN Append(Append(
           [nodes EXCEPT
               ![child_node].label = rest_label,
               ![current_node].children = (remaining_word[1] :> split_node) @@ @],
           s),
           NewTerminal(new_word_part, doc_id, frequency))

\* split_diverge with step 3 left out: the old child is not linked under
\* the split node.
split_diverge_child_unlinked(nodes, current_node, child_node, remaining_word, doc_id, frequency) ==
    LET split_node == Len(nodes) + 1
        new_node == Len(nodes) + 2
        child_label == nodes[child_node].label
        mismatch_idx == find_mismatch_point(remaining_word, child_label)
        rest_label == Drop(child_label, mismatch_idx)
        new_word_part == Drop(remaining_word, mismatch_idx)
        s == [TrieNode EXCEPT
                 !.label = Take(child_label, mismatch_idx),
                 !.children = (new_word_part[1] :> new_node)]
    IN Append(Append(
           [nodes EXCEPT
               ![child_node].label = rest_label,
               ![current_node].children = (remaining_word[1] :> split_node) @@ @],
           s),
           NewTerminal(new_word_part, doc_id, frequency))

\* Case D of insert: remaining_word and the child's label diverge inside the
\* label.  A non-terminal split node takes the child's place, with the
\* shortened child and a new terminal node for the rest of the word under it.
split_diverge(nodes, current_node, child_node, remaining_word, doc_id, frequency) ==
    LET split_node == Len(nodes) + 1
        new_node == Len(nodes) + 2
        child_label == nodes[child_node].label
        mismatch_idx == find_mismatch_point(remaining_word, child_label)
        rest_label == Drop(child_label, mismatch_idx)
        new_word_part == Drop(remaining_word, mismatch_idx)
        s == [TrieNode EXCEPT
                 !.label = Take(child_label, mismatch_idx),
                 !.children = (new_word_part[1] :> new_node) @@
                              (rest_label[1] :> child_node)]
    IN Append(Append(
           [nodes EXCEPT
               ![child_node].label = rest_label,
               ![current_node].children = (remaining_word[1] :> split_node) @@ @],
           s),
           NewTerminal(new_word_part, doc_id, frequency))

\* The while loop of insert.  returns is FALSE when no branch of the loop
\* body applies: the loop then repeats with the same state for ever.
RECURSIVE insert_loop(_, _, _, _, _)
insert_loop(nodes, current_node, remaining_word, doc_id, frequency) ==
    IF remaining_word = << >>
    THEN [nodes |-> nodes, returns |-> TRUE]
    ELSE
    LET char == remaining_word[1]
        kids == nodes[current_node].children
    IN
    IF char \notin DOMAIN kids
    THEN \* case 1: no path for this character
         LET new_node == Len(nodes) + 1
         IN [nodes |-> Append(
                 [nodes EXCEPT ![current_node].children = (char :> new_node) @@ @],
                 NewTerminal(remaining_word, doc_id, frequency)),
             returns |-> TRUE]
    ELSE
    LET child_node == kids[char]
        child_label == nodes[child_node].label
        mismatch_idx == find_mismatch_point(remaining_word, child_label)
    IN
    IF mismatch_idx = Len(remaining_word) /\ mismatch_idx = Len(child_label)
    THEN \* A: exact match
         [nodes |-> [nodes EXCEPT
                 ![child_node].is_terminal = TRUE,
                 ![child_node].inverted_index = Append(@, <<doc_id, frequency>>)],
          returns |-> TRUE]
    ELSE IF mismatch_idx = Len(remaining_word)
    THEN \* B: the word is a prefix of the label
         [nodes |-> split_prefix(nodes, current_node, child_node,
                        remaining_word, doc_id, frequency),
          returns |-> TRUE]
    ELSE IF mismatch_idx = Len(child_label)
    THEN \* C: the label is a prefix of the word
         insert_loop(nodes, child_node, Drop(remaining_word, mismatch_idx),
                     doc_id, frequency)
    ELSE IF 0 < mismatch_idx /\ mismatch_idx < Len(child_label)
    THEN \* D: divergence and split
         [nodes |-> split_diverge(nodes, current_node, child_node,
                        remaining_word, doc_id, frequency),
          returns |-> TRUE]
    ELSE [nodes |-> nodes, returns |-> FALSE]

insert(nodes, word, doc_id, frequency) ==
    insert_loop(nodes, root, word, doc_id, frequency)

RECURSIVE find_loop(_, _, _)
find_loop(nodes, current_node, remaining_word) ==
    IF remaining_word = << >>
    THEN IF nodes[current_node].is_terminal
         THEN nodes[current_node].inverted_index
         ELSE << >>
    ELSE
    LET char == remaining_word[1]
        kids == nodes[current_node].children
    IN
    IF char \notin DOMAIN kids
    THEN << >>
    ELSE
    LET child_node == kids[char]
        child_label == nodes[child_node].label
        mismatch_idx == find_mismatch_point(remaining_word, child_label)
    IN
    IF mismatch_idx = Len(remaining_word)
    THEN IF mismatch_idx = Len(child_label)
         THEN find_loop(nodes, child_node, << >>)
         ELSE << >>
    ELSE IF mismatch_idx = Len(child_label)
    THEN find_loop(nodes, child_node, Drop(remaining_word, mismatch_idx))
    ELSE << >>

find(nodes, word) ==
    find_loop(nodes, root, word)

\* ------------------------------------------------------------------------
\* Text: the conversions used by the file format
\* ------------------------------------------------------------------------
Digits ==
    << "0", "1", "2", "3", "4", "5", "6", "7", "8", "9" >>

\* str(n) for n >= 0, and f"{n}".
RECURSIVE Str(_)
Str(n) ==
    IF n < 10 THEN << Digits[n + 1] >>
    ELSE Str(n \div 10) \o << Digits[(n % 10) + 1] >>

IsDigit(ch) ==
    \E i \in 1..10 : Digits[i] = ch

DigitVal(ch) ==
    (CHOOSE i \in 1..10 : Digits[i] = ch) - 1

\* int(s) succeeds on a non-empty run of decimal digits.
IsInt(s) ==
    Len(s) > 0 /\ \A i \in 1..Len(s) : IsDigit(s[i])

RECURSIVE ParseInt(_)
ParseInt(s) ==
    IF Len(s) = 0 THEN 0
    ELSE 10 * ParseInt(Take(s, Len(s) - 1)) + DigitVal(s[Len(s)])

\* sep.join(parts)
RECURSIVE Join(_, _)
Join(parts, sep) ==
    IF Len(parts) = 0 THEN << >>
    ELSE IF Len(parts) = 1 THEN parts[1]
    ELSE parts[1] \o << sep >> \o Join(Tail(parts), sep)

\* s.split(sep): the fields between the separators, at least one field.
RECURSIVE SplitFrom(_, _, _, _)
SplitFrom(s, sep, i, field) ==
    IF i > Len(s) THEN << field >>
    ELSE IF s[i] = sep THEN << field >> \o SplitFrom(s, sep, i + 1, << >>)
    ELSE SplitFrom(s, sep, i + 1, Append(field, s[i]))

Split(s, sep) ==
    SplitFrom(s, sep, 1, << >>)

\* s.strip(): blanks removed at both ends.
RECURSIVE Strip(_)
Strip(s) ==
    IF Len(s) > 0 /\ s[1] = " " THEN Strip(Tail(s))
    ELSE IF Len(s) > 0 /\ s[Len(s)] = " " THEN Strip(Take(s, Len(s) - 1))
    ELSE s

\* The keys of a children dictionary in sorted() order.
RECURSIVE SortedKeys(_)
SortedKeys(keys) ==
    IF keys = {} THEN << >>
    ELSE LET least == CHOOSE k \in keys : \A o \in keys : Ord(k) <= Ord(o)
         IN << least >> \o SortedKeys(keys \ {least})

\* ------------------------------------------------------------------------
\* compact_trie.py: persistence.  A file is NoFile or the sequence of its
\* lines, each line the sequence of its characters without the newline.
\* ------------------------------------------------------------------------
NoFile ==
    [exists |-> FALSE, lines |-> << >>]

File(lines) ==
    [exists |-> TRUE, lines |-> lines]

\* index_str and line of pre_order_serialize.
FormatPosting(p) ==
    Str(p[1]) \o << "," >> \o Str(p[2])

FormatLine(node) ==
    node.label \o << "|" >>
    \o << (IF node.is_terminal THEN "1" ELSE "0") >> \o << "|" >>
    \o Str(Cardinality(DOMAIN node.children)) \o << "|" >>
    \o Join([i \in 1..Len(node.inverted_index) |->
                FormatPosting(node.inverted_index[i])], ";")

\* self.pre_order_serialize_serialize(...): class CompactTrie defines no
\* attribute of this name, so evaluating the call raises AttributeError
\* before anything is written.
pre_order_serialize_serialize(nodes, node, written) ==
    [written |-> written, raised |-> TRUE]

\* The for loop of pre_order_serialize over the sorted keys: it stops at
\* the first call that raises.
RECURSIVE serialize_children(_, _, _, _)
serialize_children(nodes, node, keys, written) ==
    IF Len(keys) = 0 THEN [written |-> written, raised |-> FALSE]
    ELSE LET r == pre_order_serialize_serialize(
                      nodes, nodes[node].children[keys[1]], written)
         IN IF r.raised THEN r
            ELSE serialize_children(nodes, node, Tail(keys), r.written)

pre_order_serialize(nodes, node, written) ==
    serialize_children(nodes, node,
        SortedKeys(DOMAIN nodes[node].children),
        Append(written, FormatLine(nodes[node])))

\* save_to_file: open(filename, 'w') empties the file, the exception of
\* the body is caught and printed; the result is the file it leaves.
save_to_file(nodes) ==
    File(pre_order_serialize_serialize(nodes, root, << >>).written)

\* The file format as documented (one line per node, pre-order, children
\* in key order): the content of a well-formed index file.
RECURSIVE PreOrderLines(_, _)
RECURSIVE PreOrderChildren(_, _, _)
PreOrderChildren(nodes, node, keys) ==
    IF Len(keys) = 0 THEN << >>
    ELSE PreOrderLines(nodes, nodes[node].children[keys[1]])
         \o PreOrderChildren(nodes, node, Tail(keys))

PreOrderLines(nodes, node) ==
    << FormatLine(nodes[node]) >>
    \o PreOrderChildren(nodes, node, SortedKeys(DOMAIN nodes[node].children))

\* The postings loop of load_from_file: the items parsed before the first
\* one that makes map(int, item.split(',')) or the unpacking raise.
RECURSIVE parse_items(_, _)
parse_items(items, acc) ==
    IF Len(items) = 0 THEN [index |-> acc, raised |-> FALSE]
    ELSE LET parts == Split(items[1], ",")
         IN IF Len(parts) = 2 /\ IsInt(parts[1]) /\ IsInt(parts[2])
            THEN parse_items(Tail(items),
                     Append(acc, <<ParseInt(parts[1]), ParseInt(parts[2])>>))
            ELSE [index |-> acc, raised |-> TRUE]

parse_index(index_str) ==
    IF Len(index_str) = 0 THEN [index |-> << >>, raised |-> FALSE]
    ELSE parse_items(Split(index_str, ";"), << >>)

\* The for loop of load_from_file over the lines after the first.
\* stack holds <<parent node, children still to read>>, top last.
RECURSIVE load_lines(_, _, _, _)
load_lines(nodes, stack, lines, i) ==
    IF i > Len(lines) THEN [nodes |-> nodes, ret |-> "True"]
    ELSE IF Len(stack) = 0 THEN [nodes |-> nodes, ret |-> "True"]
    ELSE
    LET parent_node == stack[Len(stack)][1]
        remaining_children == stack[Len(stack)][2] - 1
        fields == Split(Strip(lines[i]), "|")
    IN
    IF Len(fields) # 4 \/ ~IsInt(fields[3])
    THEN [nodes |-> nodes, ret |-> "False"]
    ELSE
    LET label == fields[1]
        num_children == ParseInt(fields[3])
        idx == parse_index(fields[4])
        new_node == Len(nodes) + 1
        n == [label |-> label, children |-> NoChildren,
              is_terminal |-> (fields[2] = << "1" >>),
              inverted_index |-> idx.index]
        popped == IF remaining_children = 0
                  THEN Take(stack, Len(stack) - 1)
                  ELSE [stack EXCEPT ![Len(stack)] =
                            <<parent_node, remaining_children>>]
        pushed == IF num_children > 0
                  THEN Append(popped, <<new_node, num_children>>)
                  ELSE popped
    IN
    IF idx.raised \/ Len(label) = 0
    THEN [nodes |-> nodes, ret |-> "False"]
    ELSE load_lines(
            Append([nodes EXCEPT ![parent_node].children =
                        (label[1] :> new_node) @@ @], n),
            pushed, lines, i + 1)

\* load_from_file: the trie it leaves in self and the value it returns
\* ("True", "False", or "None" for the bare return of an empty file).
load_from_file(file) ==
    IF ~file.exists THEN [nodes |-> CompactTrie, ret |-> "False"]
    ELSE IF Len(file.lines) = 0 THEN [nodes |-> CompactTrie, ret |-> "None"]
    ELSE
    LET fields == Split(Strip(file.lines[1]), "|")
    IN
    IF Len(fields) # 4 THEN [nodes |-> CompactTrie, ret |-> "False"]
    ELSE
    LET r0 == [TrieNode EXCEPT !.label = fields[1],
                               !.is_terminal = (fields[2] = << "1" >>)]
        idx == parse_index(fields[4])
        r1 == [r0 EXCEPT !.inverted_index = idx.index]
    IN
    IF ~IsInt(fields[3]) THEN [nodes |-> << r0 >>, ret |-> "False"]
    ELSE IF idx.raised THEN [nodes |-> << r1 >>, ret |-> "False"]
    ELSE load_lines(<< r1 >>,
            IF ParseInt(fields[3]) > 0
            THEN << <<root, ParseInt(fields[3])>> >> ELSE << >>,
            file.lines, 2)

\* Truth value of what load_from_file returns.
Truthy(ret) ==
    ret = "True"

\* ------------------------------------------------------------------------
\* RI.py: tokens, shunting-yard and postfix evaluation.  A token is a
\* string: an operator, a parenthesis or a term.
\* ------------------------------------------------------------------------
AND == << "A", "N", "D" >>
OR == << "O", "R" >>
LPAREN == << "(" >>
RPAREN == << ")" >>

Operators ==
    { AND, OR, LPAREN, RPAREN }

\* OP_PRECEDENCE with the values of AND and OR exchanged.
OP_PRECEDENCE_exchanged(token) ==
    IF token = OR THEN 2
    ELSE IF token = AND THEN 1
    ELSE 0

\* OP_PRECEDENCE[token], for token in OP_PRECEDENCE.
OP_PRECEDENCE(token) ==
    IF token = OR THEN 1
    ELSE IF token = AND THEN 2
    ELSE 0

Uppercase ==
    << "A", "B", "C", "D", "E", "F", "G", "H", "I", "J", "K", "L", "M",
       "N", "O", "P", "Q", "R", "S", "T", "U", "V", "W", "X", "Y", "Z" >>

\* token.lower()
Lower(token) ==
    [i \in 1..Len(token) |->
        IF \E k \in 1..Len(Uppercase) : Uppercase[k] = token[i]
        THEN Alphabet[CHOOSE k \in 1..Len(Uppercase) : Uppercase[k] = token[i]]
        ELSE token[i]]

\* query.replace('(', ' ( ').replace(')', ' ) ')
RECURSIVE IsolateParens(_)
IsolateParens(query) ==
    IF Len(query) = 0 THEN << >>
    ELSE (IF query[1] \in { "(", ")" }
          THEN << " ", query[1], " " >>
          ELSE << query[1] >>) \o IsolateParens(Tail(query))

\* str.split(): the maximal runs of non-blank characters.
RECURSIVE SplitBlanks(_, _)
SplitBlanks(s, word) ==
    IF Len(s) = 0
    THEN IF Len(word) = 0 THEN << >> ELSE << word >>
    ELSE IF s[1] = " "
    THEN (IF Len(word) = 0 THEN << >> ELSE << word >>)
         \o SplitBlanks(Tail(s), << >>)
    ELSE SplitBlanks(Tail(s), Append(word, s[1]))

tokenize_query(query) ==
    LET tokens == SplitBlanks(IsolateParens(query), << >>)
    IN [i \in 1..Len(tokens) |->
           IF tokens[i] \in Operators THEN tokens[i] ELSE Lower(tokens[i])]

\* while operator_stack and operator_stack[-1] != '(': output.append(pop())
RECURSIVE pop_to_paren(_, _)
pop_to_paren(output, operator_stack) ==
    IF Len(operator_stack) > 0 /\ operator_stack[Len(operator_stack)] # LPAREN
    THEN pop_to_paren(Append(output, operator_stack[Len(operator_stack)]),
                      Take(operator_stack, Len(operator_stack) - 1))
    ELSE [output |-> output, operator_stack |-> operator_stack]

\* The while loop before an operator is pushed.
RECURSIVE pop_not_lower(_, _, _)
pop_not_lower(output, operator_stack, token) ==
    IF /\ Len(operator_stack) > 0
       /\ operator_stack[Len(operator_stack)] # LPAREN
       /\ OP_PRECEDENCE(operator_stack[Len(operator_stack)]) >= OP_PRECEDENCE(token)
    THEN pop_not_lower(Append(output, operator_stack[Len(operator_stack)]),
                       Take(operator_stack, Len(operator_stack) - 1), token)
    ELSE [output |-> output, operator_stack |-> operator_stack]

\* while operator_stack: output.append(operator_stack.pop())
RECURSIVE drain(_, _)
drain(output, operator_stack) ==
    IF Len(operator_stack) = 0 THEN output
    ELSE drain(Append(output, operator_stack[Len(operator_stack)]),
               Take(operator_stack, Len(operator_stack) - 1))

\* discard_paren without its test: operator_stack.pop() after the while loop.
discard_paren_untested(operator_stack) ==
    IF Len(operator_stack) > 0
    THEN [operator_stack |-> Take(operator_stack, Len(operator_stack) - 1),
          raised |-> "none"]
    ELSE [operator_stack |-> operator_stack, raised |-> "IndexError"]

\* if operator_stack and operator_stack[-1] == '(': operator_stack.pop()
\* deque.pop() raises IndexError on an empty deque.
discard_paren(operator_stack) ==
    IF Len(operator_stack) > 0 /\ operator_stack[Len(operator_stack)] = LPAREN
    THEN [operator_stack |-> Take(operator_stack, Len(operator_stack) - 1),
          raised |-> "none"]
    ELSE [operator_stack |-> operator_stack, raised |-> "none"]

\* The for loop of _to_rpn and the final drain: the postfix stream and the
\* exception raised ("none" when the call returns).
RECURSIVE to_rpn_loop(_, _, _, _)
to_rpn_loop(tokens, i, output, operator_stack) ==
    IF i > Len(tokens)
    THEN [output |-> drain(output, operator_stack), raised |-> "none"]
    ELSE
    LET token == tokens[i]
    IN
    IF token \notin Operators
    THEN to_rpn_loop(tokens, i + 1, Append(output, token), operator_stack)
    ELSE IF token = LPAREN
    THEN to_rpn_loop(tokens, i + 1, output, Append(operator_stack, token))
    ELSE IF token = RPAREN
    THEN LET r == pop_to_paren(output, operator_stack)
             d == discard_paren(r.operator_stack)
         IN IF d.raised # "none"
            THEN [output |-> r.output, raised |-> d.raised]
            ELSE to_rpn_loop(tokens, i + 1, r.output, d.operator_stack)
    ELSE LET r == pop_not_lower(output, operator_stack, token)
         IN to_rpn_loop(tokens, i + 1, r.output, Append(r.operator_stack, token))

to_rpn(tokens) ==
    to_rpn_loop(tokens, 1, << >>, << >>)

\* {doc_id for doc_id, tf in index_list}
DocIdsOf(index_list) ==
    { index_list[i][1] : i \in 1..Len(index_list) }

\* _evaluate_rpn: the set it returns, the exception it raises ("none" when
\* it returns) and the number of trie.find calls it made.
RECURSIVE evaluate_rpn_loop(_, _, _, _, _)
evaluate_rpn_loop(nodes, rpn_tokens, i, operand_stack, lookups) ==
    IF i > Len(rpn_tokens)
    THEN IF Len(operand_stack) # 1
         THEN [value |-> {}, raised |-> "ValueError", lookups |-> lookups]
         ELSE [value |-> operand_stack[1], raised |-> "none", lookups |-> lookups]
    ELSE
    LET token == rpn_tokens[i]
        n == Len(operand_stack)
    IN
    IF token \notin Operators
    THEN evaluate_rpn_loop(nodes, rpn_tokens, i + 1,
             Append(operand_stack, DocIdsOf(find(nodes, token))), lookups + 1)
    ELSE IF token = AND
    THEN IF n < 2
         THEN [value |-> {}, raised |-> "ValueError", lookups |-> lookups]
         ELSE evaluate_rpn_loop(nodes, rpn_tokens, i + 1,
                  Append(Take(operand_stack, n - 2),
                         operand_stack[n - 1] \cap operand_stack[n]), lookups)
    ELSE IF token = OR
    THEN IF n < 2
         THEN [value |-> {}, raised |-> "ValueError", lookups |-> lookups]
         ELSE evaluate_rpn_loop(nodes, rpn_tokens, i + 1,
                  Append(Take(operand_stack, n - 2),
                         operand_stack[n - 1] \cup operand_stack[n]), lookups)
    ELSE \* a parenthesis in the postfix: no branch applies, it is skipped
         evaluate_rpn_loop(nodes, rpn_tokens, i + 1, operand_stack, lookups)

evaluate_rpn(nodes, rpn_tokens) ==
    evaluate_rpn_loop(nodes, rpn_tokens, 1, << >>, 0)

\* ------------------------------------------------------------------------
\* RI.py: z-score ranking.  A number is an exact fraction <<n, d>>, d > 0.
\* ------------------------------------------------------------------------
RECURSIVE GCD(_, _)
GCD(a, b) ==
    IF b = 0 THEN a ELSE GCD(b, a % b)

Abs(n) ==
    IF n < 0 THEN 0 - n ELSE n

\* n / d in lowest terms
Rat(n, d) ==
    LET g == GCD(Abs(n), d)
    IN << n \div g, d \div g >>

RInt(n) == << n, 1 >>

RAdd(a, b) == Rat(a[1] * b[2] + b[1] * a[2], a[2] * b[2])

RSub(a, b) == Rat(a[1] * b[2] - b[1] * a[2], a[2] * b[2])

\* a / b for b > 0
RDiv(a, b) == Rat(a[1] * b[2], a[2] * b[1])

RLess(a, b) == a[1] * b[2] < b[1] * a[2]

REq(a, b) == a[1] * b[2] = b[1] * a[2]

\* global_stats: a function from terms to [mu, sigma, df].
NoStats ==
    [term \in {} |-> 0]

\* _calculate_z_score with tf >= mu for tf > mu.
calculate_z_score_not_below(global_stats, tf, term) ==
    IF term \notin DOMAIN global_stats THEN RInt(0)
    ELSE LET mu == global_stats[term].mu
             sigma == global_stats[term].sigma
         IN IF ~RLess(RInt(0), sigma)
            THEN IF ~RLess(RInt(tf), mu) THEN RInt(1) ELSE RInt(0)
            ELSE RDiv(RSub(RInt(tf), mu), sigma)

calculate_z_score(global_stats, tf, term) ==
    IF term \notin DOMAIN global_stats THEN RInt(0)
    ELSE LET mu == global_stats[term].mu
             sigma == global_stats[term].sigma
         IN IF ~RLess(RInt(0), sigma)
            THEN IF RLess(mu, RInt(tf)) THEN RInt(1) ELSE RInt(0)
            ELSE RDiv(RSub(RInt(tf), mu), sigma)

\* The tf of the first posting, whatever its document.
TfOf_any_doc(index_list, doc_id) ==
    IF Len(index_list) > 0 THEN index_list[1][2] ELSE 0

\* next((t for d, t in index_list if d == doc_id), 0)
TfOf(index_list, doc_id) ==
    IF \E i \in 1..Len(index_list) : index_list[i][1] = doc_id
    THEN index_list[CHOOSE i \in 1..Len(index_list) :
                        /\ index_list[i][1] = doc_id
                        /\ \A j \in 1..(i - 1) : index_list[j][1] # doc_id][2]
    ELSE 0

\* TermsIn with the test tf > 1.
TermsIn_more_than_once(nodes, query_terms, doc_id) ==
    { term \in query_terms : TfOf(find(nodes, term), doc_id) > 1 }

\* The terms of the query that the document contains.
TermsIn(nodes, query_terms, doc_id) ==
    { term \in query_terms : TfOf(find(nodes, term), doc_id) > 0 }

RECURSIVE SumZ(_, _, _, _)
SumZ(nodes, global_stats, terms, doc_id) ==
    IF terms = {} THEN RInt(0)
    ELSE LET term == CHOOSE t \in terms : TRUE
         IN RAdd(calculate_z_score(global_stats,
                     TfOf(find(nodes, term), doc_id), term),
                 SumZ(nodes, global_stats, terms \ { term }, doc_id))

\* The relevance left as the total of the z-scores.
Relevance_total(nodes, global_stats, query_terms, doc_id) ==
    SumZ(nodes, global_stats, TermsIn(nodes, query_terms, doc_id), doc_id)

\* relevance = total_z_score / term_count, for term_count > 0
Relevance(nodes, global_stats, query_terms, doc_id) ==
    LET terms == TermsIn(nodes, query_terms, doc_id)
    IN RDiv(SumZ(nodes, global_stats, terms, doc_id), RInt(Cardinality(terms)))

\* _rank_results without its sort.
SortDescending_unsorted(ranked_docs) ==
    ranked_docs

\* list.sort(key=..., reverse=True): stable, so an element goes after the
\* elements before it whose relevance is not smaller.
RECURSIVE SortDescending(_)
SortDescending(ranked_docs) ==
    IF Len(ranked_docs) = 0 THEN << >>
    ELSE LET before == SortDescending(Take(ranked_docs, Len(ranked_docs) - 1))
             last == ranked_docs[Len(ranked_docs)]
             k == Cardinality({ i \in 1..Len(before) :
                                    ~RLess(before[i][1], last[1]) })
         IN Take(before, k) \o << last >> \o Drop(before, k)

\* _rank_results, with doc_ids given in the order the set is iterated.
rank_results(nodes, global_stats, doc_ids, query_terms) ==
    LET kept == SelectSeq(doc_ids,
                    LAMBDA d : TermsIn(nodes, query_terms, d) # {})
        ranked_docs == [i \in 1..Len(kept) |->
            << Relevance(nodes, global_stats, query_terms, kept[i]), kept[i] >>]
        sorted == SortDescending(ranked_docs)
    IN [i \in 1..Len(sorted) |-> sorted[i][2]]

\* The orders in which a set can be iterated.
Orders(S) ==
    { o \in [1..Cardinality(S) -> S] : \A x \in S : \E i \in DOMAIN o : o[i] = x }

\* ------------------------------------------------------------------------
\* RI.py: InformationRetriever
\* ------------------------------------------------------------------------
\* A statistics file: whether it exists, whether json.load parses it, and
\* the map it holds.
NoStatsFile ==
    [exists |-> FALSE, json_ok |-> FALSE, value |-> NoStats]

InvalidJson ==
    [exists |-> TRUE, json_ok |-> FALSE, value |-> NoStats]

JsonFile(value) ==
    [exists |-> TRUE, json_ok |-> TRUE, value |-> value]

\* The retriever before __init__ has run.
NoRetriever ==
    [constructed |-> FALSE, trie |-> CompactTrie,
     global_stats |-> NoStats, is_ready |-> FALSE]

\* _load_data returning True whatever becomes of the statistics file.
load_data_trie_only(tfile, sfile) ==
    LET r == load_from_file(tfile)
    IN IF ~Truthy(r.ret)
       THEN [trie |-> r.nodes, global_stats |-> NoStats, ret |-> FALSE]
       ELSE IF sfile.exists /\ sfile.json_ok
       THEN [trie |-> r.nodes, global_stats |-> sfile.value, ret |-> TRUE]
       ELSE [trie |-> r.nodes, global_stats |-> NoStats, ret |-> TRUE]

\* _load_data: the trie and statistics it leaves and the value it returns.
load_data(tfile, sfile) ==
    LET r == load_from_file(tfile)
    IN IF ~Truthy(r.ret)
       THEN [trie |-> r.nodes, global_stats |-> NoStats, ret |-> FALSE]
       ELSE IF sfile.exists /\ sfile.json_ok
       THEN [trie |-> r.nodes, global_stats |-> sfile.value, ret |-> TRUE]
       ELSE [trie |-> r.nodes, global_stats |-> NoStats, ret |-> FALSE]

\* InformationRetriever.__init__
InformationRetriever(tfile, sfile) ==
    LET d == load_data(tfile, sfile)
    IN [constructed |-> TRUE, trie |-> d.trie,
        global_stats |-> d.global_stats, is_ready |-> d.ret]

\* Steps 1 and 2 of search: the matching set, the exception raised and
\* the number of trie lookups.
search_boolean(retriever, query) ==
    LET p == to_rpn(tokenize_query(query))
    IN IF p.raised # "none"
       THEN [value |-> {}, raised |-> p.raised, lookups |-> 0]
       ELSE evaluate_rpn(retriever.trie, p.output)

QueryTerms(query) ==
    LET tokens == tokenize_query(query)
    IN { tokens[i] : i \in 1..Len(tokens) } \ Operators

\* search without its try block.
caught_nothing(raised) ==
    FALSE

\* except ValueError: the exceptions the handler of search catches.
caught(raised) ==
    raised = "ValueError"

\* search, given the order in which the matching set is iterated: the
\* list returned, the exception that reaches the caller ("none" when the
\* call returns) and the number of trie lookups made.
search(retriever, query, order) ==
    IF ~retriever.is_ready
    THEN [result |-> << >>, raised |-> "none", lookups |-> 0]
    ELSE
    LET b == search_boolean(retriever, query)
    IN IF caught(b.raised)
       THEN [result |-> << >>, raised |-> "none", lookups |-> b.lookups]
       ELSE IF b.raised # "none"
       THEN [result |-> << >>, raised |-> b.raised, lookups |-> b.lookups]
       ELSE IF b.value = {}
       THEN [result |-> << >>, raised |-> "none", lookups |-> b.lookups]
       ELSE [result |-> rank_results(retriever.trie, retriever.global_stats,
                            order, QueryTerms(query)),
             raised |-> "none",
             lookups |-> b.lookups
                         + Len(order) * Cardinality(QueryTerms(query))]

\* The matching set that search ranks; empty when it returns before step 3.
Candidates(retriever, query) ==
    IF ~retriever.is_ready THEN {}
    ELSE LET b == search_boolean(retriever, query)
         IN IF b.raised = "none" THEN b.value ELSE {}

\* ------------------------------------------------------------------------
\* indexer.py: Indexer
\* ------------------------------------------------------------------------
\* re.findall(r'[a-z]+', text): the maximal runs of the letters a..z.
IsLetter(ch) ==
    \E i \in 1..Len(Alphabet) : Alphabet[i] = ch

RECURSIVE LetterRuns(_, _)
LetterRuns(s, word) ==
    IF Len(s) = 0
    THEN IF Len(word) = 0 THEN << >> ELSE << word >>
    ELSE IF ~IsLetter(s[1])
    THEN (IF Len(word) = 0 THEN << >> ELSE << word >>)
         \o LetterRuns(Tail(s), << >>)
    ELSE LetterRuns(Tail(s), Append(word, s[1]))

\* term_frequency[token] += 1 over the tokens: <<term, tf>> in the order
\* the dictionary got its keys.
RECURSIVE CountTokens(_, _)
CountTokens(tokens, term_frequency) ==
    IF Len(tokens) = 0 THEN term_frequency
    ELSE LET token == tokens[1]
             at == { i \in 1..Len(term_frequency) : term_frequency[i][1] = token }
         IN CountTokens(Tail(tokens),
                IF at = {} THEN Append(term_frequency, <<token, 1>>)
                ELSE [term_frequency EXCEPT
                         ![CHOOSE i \in at : TRUE] = <<token, @[2] + 1>>])

tokenize_and_calculate_tf(text) ==
    CountTokens(LetterRuns(Lower(text), << >>), << >>)

NoDocMap ==
    [doc_id \in {} |-> ""]

\* Indexer.__init__
Indexer ==
    [trie |-> CompactTrie, doc_map |-> NoDocMap, global_stats |-> NoStats,
     total_docs |-> 0, done |-> FALSE, rebuilt |-> FALSE, raised |-> "none"]

\* _load_or_create_index_data: the indexer it leaves and the value returned.
load_or_create_index_data(ix, tfile, mfile, sfile) ==
    LET r == load_from_file(tfile)
        with_trie == [ix EXCEPT !.trie = r.nodes]
        with_map == IF mfile.exists /\ mfile.json_ok
                    THEN [with_trie EXCEPT
                             !.doc_map = mfile.value,
                             !.total_docs = Cardinality(DOMAIN mfile.value)]
                    ELSE with_trie
        with_stats == IF sfile.exists /\ sfile.json_ok
                      THEN [with_map EXCEPT !.global_stats = sfile.value]
                      ELSE with_map
    IN IF ~Truthy(r.ret) THEN [ix |-> with_trie, ret |-> FALSE]
       ELSE [ix |-> with_stats,
             ret |-> (DOMAIN with_stats.doc_map # {}
                      /\ DOMAIN with_stats.global_stats # {})]

\* The inner for loop of index_corpus over term_frequencies.items().
RECURSIVE index_terms(_, _, _, _)
index_terms(nodes, raw_stats, doc_id, term_frequencies) ==
    IF Len(term_frequencies) = 0 THEN [trie |-> nodes, raw_stats |-> raw_stats]
    ELSE LET term == term_frequencies[1][1]
             tf == term_frequencies[1][2]
             old == IF term \in DOMAIN raw_stats THEN raw_stats[term]
                    ELSE [sum_tf |-> 0, sum_tf2 |-> 0, df |-> 0]
             new == [sum_tf |-> old.sum_tf + tf,
                     sum_tf2 |-> old.sum_tf2 + tf * tf,
                     df |-> old.df + 1]
         IN index_terms(insert(nodes, term, doc_id, tf).nodes,
                        (term :> new) @@ raw_stats,
                        doc_id, Tail(term_frequencies))

\* Pass 1 with the id of a document that cannot be read given to the next
\* document.
RECURSIVE index_documents_reusing_ids(_, _, _, _)
index_documents_reusing_ids(ix, raw_stats, documents, doc_id_counter) ==
    IF Len(documents) = 0 THEN [ix |-> ix, raw_stats |-> raw_stats]
    ELSE LET doc == documents[1]
             doc_id == doc_id_counter
             mapped == [ix EXCEPT !.doc_map = (doc_id :> doc.path) @@ @]
         IN IF ~doc.readable
            THEN index_documents_reusing_ids(mapped, raw_stats,
                                             Tail(documents), doc_id_counter)
            ELSE LET r == index_terms(mapped.trie, raw_stats, doc_id,
                              tokenize_and_calculate_tf(doc.text))
                 IN index_documents_reusing_ids(
                        [mapped EXCEPT !.trie = r.trie, !.total_docs = doc_id],
                        r.raw_stats, Tail(documents), doc_id_counter + 1)

\* Pass 1 of index_corpus over the files os.walk yields.  A document is
\* [path, readable, text]; opening an unreadable one raises, which the
\* except clause of the loop body prints.
RECURSIVE index_documents(_, _, _, _)
index_documents(ix, raw_stats, documents, doc_id_counter) ==
    IF Len(documents) = 0 THEN [ix |-> ix, raw_stats |-> raw_stats]
    ELSE LET doc == documents[1]
             doc_id == doc_id_counter
             mapped == [ix EXCEPT !.doc_map = (doc_id :> doc.path) @@ @]
         IN IF ~doc.readable
            THEN index_documents(mapped, raw_stats, Tail(documents),
                                 doc_id_counter + 1)
            ELSE LET r == index_terms(mapped.trie, raw_stats, doc_id,
                              tokenize_and_calculate_tf(doc.text))
                 IN index_documents(
                        [mapped EXCEPT !.trie = r.trie, !.total_docs = doc_id],
                        r.raw_stats, Tail(documents), doc_id_counter + 1)

\* The largest r with r * r <= n, searched between lo and hi.
RECURSIVE ISqrtBetween(_, _, _)
ISqrtBetween(n, lo, hi) ==
    IF lo >= hi THEN lo
    ELSE LET mid == (lo + hi + 1) \div 2
         IN IF mid * mid <= n THEN ISqrtBetween(n, mid, hi)
            ELSE ISqrtBetween(n, lo, mid - 1)

\* math.sqrt of a fraction v >= 0: exact when the root is a fraction whose
\* denominator divides that of v times SqrtScale, and rounded down to the
\* next multiple of 1 / (v[2] * SqrtScale) otherwise (a float is rounded
\* to its 53 bits in the same way).
RSqrt(v) ==
    LET n == v[1] * v[2] * SqrtScale * SqrtScale
    IN Rat(ISqrtBetween(n, 0, (v[1] + 1) * v[2] * SqrtScale), v[2] * SqrtScale)

\* The statistics loop of _calculate_and_save_stats.
final_stats(raw_stats) ==
    [term \in DOMAIN raw_stats |->
        LET data == raw_stats[term]
            mu == IF data.df > 0 THEN Rat(data.sum_tf, data.df) ELSE RInt(0)
            variance == IF data.df > 0
                        THEN RSub(Rat(data.sum_tf2, data.df),
                                  Rat(mu[1] * mu[1], mu[2] * mu[2]))
                        ELSE RInt(0)
            sigma == IF ~RLess(variance, RInt(0)) THEN RSqrt(variance) ELSE RInt(0)
        IN [mu |-> mu, sigma |-> sigma, df |-> data.df]]

\* ------------------------------------------------------------------------
\* The example corpus
\* ------------------------------------------------------------------------
\* The blue car and the blue house, blue.
D1Text ==
    << "T", "h", "e", " ", "b", "l", "u", "e", " ", "c", "a", "r", " ",
       "a", "n", "d", " ", "t", "h", "e", " ", "b", "l", "u", "e", " ",
       "h", "o", "u", "s", "e", ",", " ", "b", "l", "u", "e", "." >>

\* The red car is fast. Another red car.
D2Text ==
    << "T", "h", "e", " ", "r", "e", "d", " ", "c", "a", "r", " ", "i",
       "s", " ", "f", "a", "s", "t", ".", " ", "A", "n", "o", "t", "h",
       "e", "r", " ", "r", "e", "d", " ", "c", "a", "r", "." >>

\* The green house on the street. Just one house.
D3Text ==
    << "T", "h", "e", " ", "g", "r", "e", "e", "n", " ", "h", "o", "u",
       "s", "e", " ", "o", "n", " ", "t", "h", "e", " ", "s", "t", "r",
       "e", "e", "t", ".", " ", "J", "u", "s", "t", " ", "o", "n", "e",
       " ", "h", "o", "u", "s", "e", "." >>

ExampleDocs ==
    { [path |-> "d1.txt", readable |-> TRUE, text |-> D1Text],
      [path |-> "d2.txt", readable |-> TRUE, text |-> D2Text],
      [path |-> "d3.txt", readable |-> TRUE, text |-> D3Text] }

ExampleCorpus ==
    << [path |-> "d1.txt", readable |-> TRUE, text |-> D1Text],
       [path |-> "d2.txt", readable |-> TRUE, text |-> D2Text],
       [path |-> "d3.txt", readable |-> TRUE, text |-> D3Text] >>

\* The index of the example corpus: pass 1 and the statistics.
ExampleIndex ==
    LET p == index_documents(Indexer, NoStats, ExampleCorpus, 1)
    IN [p.ix EXCEPT !.global_stats = final_stats(p.raw_stats)]

\* A well-formed inverted-index file of the example corpus.
ExampleTrieFile ==
    File(PreOrderLines(ExampleIndex.trie, root))

ExampleStatsFile ==
    JsonFile(ExampleIndex.global_stats)

ExampleMapFile ==
    JsonFile(ExampleIndex.doc_map)

\* ------------------------------------------------------------------------
\* State
\* ------------------------------------------------------------------------
VARIABLES
    trie,         \* the nodes of the CompactTrie being built
    hist,         \* the insert calls made so far: <<word, doc_id, frequency>>
    hung,         \* an insert call did not return
    phase,        \* "build", "saved", "loaded", "resaved"
    trie_file,    \* the inverted-index file
    copy,         \* a fresh CompactTrie after load_from_file
    resaved,      \* the file written by saving the loaded trie
    tokens,       \* the token stream given to _to_rpn
    rpn,          \* what _to_rpn returned for it
    documents,    \* the files of the corpus in the order os.walk yields them
    initial_disk, \* the artifact files present before indexing
    ix,           \* the Indexer
    write_failure, \* the artifact file that cannot be opened for writing
    map_file,     \* the document-map file
    stats_file,   \* the statistics file
    ir,           \* the InformationRetriever
    out,          \* the last search call: query, result, exception, lookups
    rank,         \* the last _rank_results call: arguments and result
    zcall         \* the last _calculate_z_score call: arguments and result

vars ==
    << trie, hist, hung, phase, trie_file, copy, resaved, tokens, rpn,
       documents, initial_disk, ix, write_failure, map_file, stats_file, ir, out,
       rank, zcall >>

trie_vars ==
    << trie, hist, hung, phase, copy, resaved >>

rpn_vars ==
    << tokens, rpn >>

index_vars ==
    << documents, initial_disk, ix, write_failure, map_file >>

call_vars ==
    << rank, zcall >>

NoCopy ==
    [loaded |-> FALSE, nodes |-> CompactTrie, ret |-> "None"]

NoRpn ==
    [done |-> FALSE, output |-> << >>, raised |-> "none"]

NoSearch ==
    [searched |-> FALSE, query |-> << >>, result |-> << >>,
     raised |-> "none", lookups |-> 0]

NoRank ==
    [called |-> FALSE, doc_ids |-> << >>, query_terms |-> {}, result |-> << >>]

NoZ ==
    [called |-> FALSE, tf |-> 0, term |-> << >>, result |-> << 0, 1 >>]

\* The variables a specification does not use.
IdleTrie ==
    /\ trie = CompactTrie /\ hist = << >> /\ hung = FALSE /\ phase = "build"
    /\ copy = NoCopy /\ resaved = NoFile

IdleRpn ==
    tokens = << >> /\ rpn = NoRpn

IdleIndex ==
    /\ documents = << >> /\ initial_disk = "none" /\ ix = Indexer
    /\ write_failure = "none" /\ map_file = NoStatsFile

IdleRetriever ==
    /\ stats_file = NoStatsFile /\ ir = NoRetriever /\ out = NoSearch

IdleCalls ==
    rank = NoRank /\ zcall = NoZ

\* ------------------------------------------------------------------------
\* The trie under a sequence of inserts, then saved and loaded back
\* ------------------------------------------------------------------------
car == << "c", "a", "r" >>
cartoon == << "c", "a", "r", "t", "o", "o", "n" >>
cat == << "c", "a", "t" >>
ca == << "c", "a" >>
dog == << "d", "o", "g" >>

Words ==
    { car, cartoon, cat, ca, dog }

\* The terms looked up: the words, and prefixes and extensions of them.
Probes ==
    Words \cup { << "c" >>, << "c", "a", "r", "t" >>, << "c", "a", "r", "s" >>,
                 << "d", "o" >>, << "d", "o", "g", "s" >>, << "a" >> }

DocIds ==
    { 1, 2 }

Freqs ==
    { 1, 2 }

InitTrie ==
    /\ trie = CompactTrie
    /\ hist = << >>
    /\ hung = FALSE
    /\ phase = "build"
    /\ trie_file = NoFile
    /\ copy = NoCopy
    /\ resaved = NoFile
    /\ IdleRpn /\ IdleIndex /\ IdleRetriever
    /\ IdleCalls

\* trie.insert(word, doc_id, frequency), each (word, doc_id) at most once.
Insert(word, doc_id, frequency) ==
    /\ phase = "build"
    /\ ~hung
    /\ Len(hist) < MaxInserts
    /\ \A i \in 1..Len(hist) : ~(hist[i][1] = word /\ hist[i][2] = doc_id)
    /\ LET r == insert(trie, word, doc_id, frequency)
       IN /\ trie' = r.nodes
          /\ hung' = ~r.returns
    /\ hist' = Append(hist, <<word, doc_id, frequency>>)
    /\ UNCHANGED << phase, trie_file, copy, resaved >>
    /\ UNCHANGED << rpn_vars, index_vars, stats_file, ir, out >>
    /\ UNCHANGED call_vars

\* trie.save_to_file(trie_file)
SaveToFile ==
    /\ phase = "build"
    /\ ~hung
    /\ trie_file' = save_to_file(trie)
    /\ phase' = "saved"
    /\ UNCHANGED << trie, hist, hung, copy, resaved >>
    /\ UNCHANGED << rpn_vars, index_vars, stats_file, ir, out >>
    /\ UNCHANGED call_vars

\* CompactTrie().load_from_file(trie_file)
LoadFromFile ==
    /\ phase = "saved"
    /\ LET r == load_from_file(trie_file)
       IN copy' = [loaded |-> TRUE, nodes |-> r.nodes, ret |-> r.ret]
    /\ phase' = "loaded"
    /\ UNCHANGED << trie, hist, hung, trie_file, resaved >>
    /\ UNCHANGED << rpn_vars, index_vars, stats_file, ir, out >>
    /\ UNCHANGED call_vars

\* The loaded trie saved to a second file.
SaveCopy ==
    /\ phase = "loaded"
    /\ resaved' = save_to_file(copy.nodes)
    /\ phase' = "resaved"
    /\ UNCHANGED << trie, hist, hung, trie_file, copy >>
    /\ UNCHANGED << rpn_vars, index_vars, stats_file, ir, out >>
    /\ UNCHANGED call_vars

NextTrie ==
    \/ \E w \in Words, d \in DocIds, f \in Freqs : Insert(w, d, f)
    \/ SaveToFile
    \/ LoadFromFile
    \/ SaveCopy

SpecTrie ==
    InitTrie /\ [][NextTrie]_vars

\* The postings inserted for a term, in insertion order.
RECURSIVE PostingsOf(_, _)
PostingsOf(h, term) ==
    IF Len(h) = 0 THEN << >>
    ELSE LET before == PostingsOf(Take(h, Len(h) - 1), term)
             last == h[Len(h)]
         IN IF last[1] = term THEN Append(before, <<last[2], last[3]>>)
            ELSE before

\* C1: after any sequence of inserts on an empty trie, find(t) is exactly
\* the postings inserted for t, in insertion order, and is empty for every
\* term never inserted, proper prefixes and extensions included.
C1_FindReturnsInserted ==
    \A t \in Probes : find(trie, t) = PostingsOf(hist, t)

\* cartoon and car both inserted, car twice, and the prefix "cart" and the
\* extension "cars" looked up.
C1_Witness ==
    /\ Len(PostingsOf(hist, car)) = 2
    /\ Len(PostingsOf(hist, cartoon)) = 1
    /\ find(trie, car) = PostingsOf(hist, car)
    /\ find(trie, << "c", "a", "r", "t" >>) = << >>
    /\ find(trie, << "c", "a", "r", "s" >>) = << >>

\* C2: insert(w, d, f) changes find only for w: every other term has the
\* same postings before and after the call, splits included, and w gains
\* exactly the new posting at the end of its list.
C2_InsertChangesOnlyItsTerm ==
    [][hist' # hist =>
          LET call == hist'[Len(hist')]
          IN /\ \A v \in Probes \ { call[1] } : find(trie', v) = find(trie, v)
             /\ find(trie', call[1]) =
                    Append(find(trie, call[1]), <<call[2], call[3]>>)]_vars

\* cartoon, then car (a split because car is a prefix of the label), then
\* cat (a split because cat diverges inside the label car).
C2_Witness ==
    /\ Len(hist) = 3
    /\ hist[1][1] = cartoon /\ hist[2][1] = car /\ hist[3][1] = cat
    /\ find(trie, car) = << <<hist[2][2], hist[2][3]>> >>
    /\ find(trie, cartoon) = << <<hist[1][2], hist[1][3]>> >>
    /\ find(trie, cat) = << <<hist[3][2], hist[3][3]>> >>

\* C3: after save_to_file and load_from_file into a fresh trie, find gives
\* the same postings as the original for every term, and saving the loaded
\* trie writes the same file again.
C3_SaveLoadRoundTrip ==
    /\ phase \in { "loaded", "resaved" } =>
           \A t \in Probes : find(copy.nodes, t) = find(trie, t)
    /\ phase = "resaved" => resaved = trie_file

\* ------------------------------------------------------------------------
\* _to_rpn on token streams
\* ------------------------------------------------------------------------
blue == << "b", "l", "u", "e" >>
green == << "g", "r", "e", "e", "n" >>
house == << "h", "o", "u", "s", "e" >>

BoundedSeq(S, n) ==
    UNION { [1..k -> S] : k \in 0..n }

RpnTokens ==
    { car, blue, green, AND, OR, LPAREN, RPAREN }

RpnExamples ==
    { << LPAREN, car, AND, blue, RPAREN, OR, green >>,
      << car, OR, LPAREN, blue, OR, green, RPAREN >>,
      << LPAREN, car, OR, blue, RPAREN, AND, green >>,
      << LPAREN, LPAREN, car, AND, blue, RPAREN, OR, green >> }

TokenStreams ==
    BoundedSeq(RpnTokens, MaxRpnTokens) \cup RpnExamples

InitRpn ==
    /\ tokens \in TokenStreams
    /\ rpn = NoRpn
    /\ trie_file = NoFile
    /\ IdleTrie /\ IdleIndex /\ IdleRetriever
    /\ IdleCalls

\* self._to_rpn(tokens)
ToRpn ==
    /\ ~rpn.done
    /\ LET r == to_rpn(tokens)
       IN rpn' = [done |-> TRUE, output |-> r.output, raised |-> r.raised]
    /\ UNCHANGED << tokens, trie_vars, trie_file, index_vars, stats_file, ir, out >>
    /\ UNCHANGED call_vars

NextRpn ==
    ToRpn

SpecRpn ==
    InitRpn /\ [][NextRpn]_vars

\* --- the infix grammar, read without an operator stack ---
\* The number of '(' minus the number of ')' among the first n tokens.
RECURSIVE DepthAfter(_, _)
DepthAfter(ts, n) ==
    IF n = 0 THEN 0
    ELSE DepthAfter(ts, n - 1)
         + (IF ts[n] = LPAREN THEN 1 ELSE IF ts[n] = RPAREN THEN 0 - 1 ELSE 0)

Balanced(ts) ==
    /\ \A n \in 0..Len(ts) : DepthAfter(ts, n) >= 0
    /\ DepthAfter(ts, Len(ts)) = 0

\* The positions of an operator outside every parenthesis.
TopLevel(ts, op) ==
    { i \in 1..Len(ts) : ts[i] = op /\ DepthAfter(ts, i - 1) = 0 }

MaxOf(S) ==
    CHOOSE i \in S : \A j \in S : j <= i

\* Where the expression splits: at its last top-level OR, else at its last
\* top-level AND (AND binds tighter; both associate to the left).
SplitAt(ts) ==
    IF TopLevel(ts, OR) # {} THEN MaxOf(TopLevel(ts, OR))
    ELSE IF TopLevel(ts, AND) # {} THEN MaxOf(TopLevel(ts, AND))
    ELSE 0

RECURSIVE IsExpr(_)
IsExpr(ts) ==
    IF Len(ts) = 0 THEN FALSE
    ELSE IF SplitAt(ts) # 0
    THEN /\ IsExpr(Take(ts, SplitAt(ts) - 1))
         /\ IsExpr(Drop(ts, SplitAt(ts)))
    ELSE IF Len(ts) >= 3 /\ ts[1] = LPAREN /\ ts[Len(ts)] = RPAREN
    THEN IsExpr(SubSeq(ts, 2, Len(ts) - 1))
    ELSE Len(ts) = 1 /\ ts[1] \notin Operators

\* A well-formed query: terms, AND, OR and balanced parentheses.
WellFormed(ts) ==
    Balanced(ts) /\ IsExpr(ts)

\* The postfix form of a well-formed expression.
RECURSIVE Postfix(_)
Postfix(ts) ==
    IF SplitAt(ts) # 0
    THEN Postfix(Take(ts, SplitAt(ts) - 1)) \o Postfix(Drop(ts, SplitAt(ts)))
         \o << ts[SplitAt(ts)] >>
    ELSE IF Len(ts) >= 3 /\ ts[1] = LPAREN
    THEN Postfix(SubSeq(ts, 2, Len(ts) - 1))
    ELSE ts

TermsOf(ts) ==
    SelectSeq(ts, LAMBDA t : t \notin Operators)

\* C6: AND binds tighter than OR, both associate to the left and
\* parentheses override: the postfix stream of every well-formed token
\* stream is its postfix form, 'a AND b OR c' and '(a AND b) OR c' give the
\* same stream a b AND c OR, 'a OR b AND c' gives a b c AND OR, and the
\* terms keep their order.
C6_Precedence ==
    /\ rpn.done =>
          /\ TermsOf(rpn.output) = TermsOf(tokens)
          /\ WellFormed(tokens) => rpn.output = Postfix(tokens)
    /\ to_rpn(<< car, AND, blue, OR, green >>).output
           = << car, blue, AND, green, OR >>
    /\ to_rpn(<< LPAREN, car, AND, blue, RPAREN, OR, green >>).output
           = << car, blue, AND, green, OR >>
    /\ to_rpn(<< car, OR, blue, AND, green >>).output
           = << car, blue, green, AND, OR >>

\* 'car OR blue AND green' has been converted.
C6_Witness ==
    /\ rpn.done
    /\ tokens = << car, OR, blue, AND, green >>
    /\ rpn.output = << car, blue, green, AND, OR >>

\* --- what the postfix stream holds ---
Count(ts, t) ==
    Cardinality({ i \in 1..Len(ts) : ts[i] = t })

\* The '(' left on the operator stack: a ')' takes the nearest one away.
RECURSIVE UnmatchedOpen(_, _)
UnmatchedOpen(ts, n) ==
    IF n = 0 THEN 0
    ELSE LET before == UnmatchedOpen(ts, n - 1)
         IN IF ts[n] = LPAREN THEN before + 1
            ELSE IF ts[n] = RPAREN /\ before > 0 THEN before - 1
            ELSE before

\* C8 as stated: the postfix stream is empty whenever the token stream is
\* empty or has an unmatched parenthesis, and _to_rpn never raises.
C8_EmptyOnUnmatched ==
    rpn.done =>
        /\ rpn.raised = "none"
        /\ (Len(tokens) = 0 \/ ~Balanced(tokens)) => rpn.output = << >>

\* C8 amended: _to_rpn never raises and returns the empty stream for the
\* empty token stream; with an unmatched parenthesis the stream still holds
\* every term and every AND and OR of the input, each unmatched '(' is
\* copied into it and no ')' ever is.
C8_BestEffortPostfix ==
    rpn.done =>
        /\ rpn.raised = "none"
        /\ Len(tokens) = 0 => rpn.output = << >>
        /\ \A t \in RpnTokens \ { LPAREN, RPAREN } :
               Count(rpn.output, t) = Count(tokens, t)
        /\ Count(rpn.output, LPAREN) = UnmatchedOpen(tokens, Len(tokens))
        /\ Count(rpn.output, RPAREN) = 0

\* '( car AND blue' and 'car )' have been converted: one keeps its '(',
\* the other loses its ')'.
C8_Witness ==
    /\ rpn.done
    /\ \/ tokens = << LPAREN, car, AND, blue >>
          /\ rpn.output = << car, blue, AND, LPAREN >>
       \/ tokens = << car, RPAREN >> /\ rpn.output = << car >>

\* ------------------------------------------------------------------------
\* The retriever over the files it finds, and its searches
\* ------------------------------------------------------------------------
\* An index file with a line of too few fields.
MalformedTrieFile ==
    File([ExampleTrieFile.lines EXCEPT ![3] = << "x", "|", "1" >>])

\* An index file that ends before the declared children have been read.
TruncatedTrieFile ==
    File(Take(ExampleTrieFile.lines, 6))

\* An index file with a line after the last declared child.
TrailingTrieFile ==
    File(Append(ExampleTrieFile.lines,
                << "z", "|", "1", "|", "0", "|", "9", ",", "9" >>))

TrieFiles ==
    { ExampleTrieFile, NoFile, File(<< >>), MalformedTrieFile,
      TruncatedTrieFile, TrailingTrieFile }

StatsFiles ==
    { ExampleStatsFile, NoStatsFile, InvalidJson, JsonFile(NoStats) }

\* A query as it is typed: the tokens separated by blanks, none after '('
\* and none before ')'.
RECURSIVE Render(_)
Render(ts) ==
    IF Len(ts) = 0 THEN << >>
    ELSE IF Len(ts) = 1 THEN ts[1]
    ELSE LET before == Take(ts, Len(ts) - 1)
             last == ts[Len(ts)]
         IN Render(before)
            \o (IF before[Len(before)] = LPAREN \/ last = RPAREN
                THEN << >> ELSE << " " >>)
            \o last

ExampleQueries ==
    { << car, AND, blue >>,
      << LPAREN, car, AND, blue, RPAREN, OR, green >>,
      << LPAREN, car, AND, blue >>,
      << car, AND, blue, RPAREN >>,
      << car, OR, house >>,
      << car, OR, blue, AND, green >>,
      << car, AND, blue, OR, green >>,
      << car, AND, LPAREN, blue, OR, green, RPAREN >>,
      << dog >>,
      << car, OR, dog >> }

Queries ==
    BoundedSeq(RpnTokens, MaxQueryTokens) \cup ExampleQueries

InitIR ==
    /\ trie_file \in TrieFiles
    /\ stats_file \in StatsFiles
    /\ ir = NoRetriever
    /\ out = NoSearch
    /\ IdleTrie /\ IdleRpn /\ IdleIndex
    /\ IdleCalls

\* InformationRetriever(trie_file, stats_file)
Construct ==
    /\ ~ir.constructed
    /\ ir' = InformationRetriever(trie_file, stats_file)
    /\ UNCHANGED << trie_vars, trie_file, rpn_vars, index_vars, stats_file, out >>
    /\ UNCHANGED call_vars

\* ir.search(query), the query written from the tokens ts.  search assigns
\* no attribute of the retriever, so one call from each state of the
\* retriever shows every call.
Search(ts) ==
    /\ ir.constructed
    /\ ~out.searched
    /\ \E order \in Orders(Candidates(ir, Render(ts))) :
          LET r == search(ir, Render(ts), order)
          IN out' = [searched |-> TRUE, query |-> ts, result |-> r.result,
                     raised |-> r.raised, lookups |-> r.lookups]
    /\ UNCHANGED << trie_vars, trie_file, rpn_vars, index_vars, stats_file, ir >>
    /\ UNCHANGED call_vars

NextIR ==
    \/ Construct
    \/ \E ts \in Queries : Search(ts)

SpecIR ==
    InitIR /\ [][NextIR]_vars

\* The Boolean value of a well-formed query: a term is the set of document
\* ids of its posting list, AND is intersection, OR is union.
RECURSIVE Value(_, _)
Value(nodes, ts) ==
    IF SplitAt(ts) # 0
    THEN LET left == Value(nodes, Take(ts, SplitAt(ts) - 1))
             right == Value(nodes, Drop(ts, SplitAt(ts)))
         IN IF ts[SplitAt(ts)] = AND THEN left \cap right ELSE left \cup right
    ELSE IF Len(ts) >= 3 /\ ts[1] = LPAREN
    THEN Value(nodes, SubSeq(ts, 2, Len(ts) - 1))
    ELSE DocIdsOf(find(nodes, ts[1]))

Range(seq) ==
    { seq[i] : i \in 1..Len(seq) }

\* C5: for every well-formed query a ready retriever returns exactly the
\* ids of the query's Boolean value, none lost in ranking and none twice.
C5_SearchIsBooleanValue ==
    (out.searched /\ ir.is_ready /\ WellFormed(out.query)) =>
        /\ out.raised = "none"
        /\ Range(out.result) = Value(ir.trie, out.query)
        /\ Len(out.result) = Cardinality(Value(ir.trie, out.query))

\* '(car AND blue) OR green' on the index of the example corpus gives the
\* ids 1 and 3.
C5_Witness ==
    /\ out.searched /\ ir.is_ready
    /\ trie_file = ExampleTrieFile /\ stats_file = ExampleStatsFile
    /\ out.query = << LPAREN, car, AND, blue, RPAREN, OR, green >>
    /\ Range(out.result) = { 1, 3 }
    /\ search(ir, Render(<< car, AND, blue >>), << 1 >>).result = << 1 >>

\* C7: a query with an unmatched parenthesis returns the empty list and
\* raises nothing.
C7_UnmatchedParenGivesEmpty ==
    (out.searched /\ ~Balanced(out.query)) =>
        out.result = << >> /\ out.raised = "none"

\* The depth of the operand stack after n postfix tokens, -1 once an AND
\* or OR found fewer than two operands.
RECURSIVE OperandDepth(_, _)
OperandDepth(ts, n) ==
    IF n = 0 THEN 0
    ELSE LET d == OperandDepth(ts, n - 1)
         IN IF d = 0 - 1 THEN d
            ELSE IF ts[n] \notin Operators THEN d + 1
            ELSE IF ts[n] \in { AND, OR }
            THEN (IF d < 2 THEN 0 - 1 ELSE d - 1)
            ELSE d

IllFormedPostfix(ts) ==
    OperandDepth(ts, Len(ts)) # 1

\* C9: when the postfix evaluation runs out of operands or ends with an
\* operand stack depth other than 1, search returns the empty list and no
\* exception reaches the caller.
C9_IllFormedGivesEmpty ==
    (out.searched /\ IllFormedPostfix(to_rpn(out.query).output)) =>
        out.result = << >> /\ out.raised = "none"

\* 'car AND' has been searched by a ready retriever, which looked car up.
C9_Witness ==
    /\ out.searched /\ ir.is_ready
    /\ out.query = << car, AND >>
    /\ out.lookups = 1
    /\ out.result = << >>
    /\ search(ir, Render(<< car, blue >>), << >>).result = << >>
    /\ search(ir, << >>, << >>).result = << >>

\* Loading failed: the trie file or the statistics file is missing or
\* does not parse.
LoadFailed ==
    \/ load_from_file(trie_file).ret # "True"
    \/ ~stats_file.exists
    \/ ~stats_file.json_ok

\* C10: when loading fails at construction the retriever is not ready and
\* every search returns the empty list without a trie lookup; is_ready
\* never changes after construction.
C10_NotReadyAfterFailedLoad ==
    [][/\ ir.constructed => ir'.is_ready = ir.is_ready
       /\ (ir'.constructed /\ LoadFailed) =>
              /\ ~ir'.is_ready
              /\ out'.searched =>
                    /\ out'.result = << >>
                    /\ out'.raised = "none"
                    /\ out'.lookups = 0]_vars

\* A retriever built from an index file with a malformed line has been
\* asked 'car OR blue'.
C10_Witness ==
    /\ trie_file = MalformedTrieFile /\ stats_file = ExampleStatsFile
    /\ ir.constructed /\ ~ir.is_ready
    /\ out.searched /\ out.query = << car, OR, blue >>
    /\ out.result = << >> /\ out.lookups = 0

\* ------------------------------------------------------------------------
\* Indexing a corpus, then loading what it wrote
\* ------------------------------------------------------------------------
\* A file of the corpus that cannot be opened or decoded.
Unreadable(doc) ==
    [doc EXCEPT !.readable = FALSE]

\* The corpora: files of the example corpus, in any order os.walk may
\* yield them, each readable or not.
Corpora ==
    { c \in BoundedSeq(ExampleDocs \cup { Unreadable(d) : d \in ExampleDocs },
                       Cardinality(ExampleDocs)) :
        \A i, j \in 1..Len(c) : c[i].path = c[j].path => i = j }

\* The artifact files found before indexing: none, the three of the
\* example corpus, those without the statistics file, or those with a
\* malformed line in the index file.
DiskStates ==
    { "none", "complete", "no_stats", "malformed_trie" }

\* The file whose open(..., 'w') raises OSError in _calculate_and_save_stats:
\* the document map, the statistics, or none.  (An error while the index
\* file is written is caught inside save_to_file.)
WriteFailures ==
    { "none", "map", "stats" }

InitIndex ==
    /\ documents \in Corpora
    /\ initial_disk \in DiskStates
    /\ trie_file = (IF initial_disk = "none" THEN NoFile
                    ELSE IF initial_disk = "malformed_trie"
                    THEN MalformedTrieFile
                    ELSE ExampleTrieFile)
    /\ map_file = (IF initial_disk = "none" THEN NoStatsFile ELSE ExampleMapFile)
    /\ stats_file = (IF initial_disk \in { "complete", "malformed_trie" }
                     THEN ExampleStatsFile
                     ELSE NoStatsFile)
    /\ ix = Indexer
    /\ write_failure \in WriteFailures
    /\ ir = NoRetriever
    /\ out = NoSearch
    /\ IdleTrie /\ IdleRpn
    /\ IdleCalls

\* indexer.index_corpus(): nothing is written when the artifacts load;
\* otherwise pass 1, the statistics, and the three files saved in turn, the
\* first open that fails ending the call with its exception.
IndexCorpus ==
    /\ ~ix.done /\ ix.raised = "none"
    /\ \E l \in { load_or_create_index_data(ix, trie_file, map_file, stats_file) } :
          IF l.ret
          THEN /\ ix' = [l.ix EXCEPT !.done = TRUE]
               /\ UNCHANGED << trie_file, map_file, stats_file >>
          ELSE \E p \in { index_documents(l.ix, NoStats, documents, 1) } :
                  /\ ix' = [p.ix EXCEPT !.global_stats = final_stats(p.raw_stats),
                                        !.rebuilt = TRUE,
                                        !.done = (write_failure = "none"),
                                        !.raised = IF write_failure = "none"
                                                   THEN "none" ELSE "OSError"]
                  /\ trie_file' = save_to_file(p.ix.trie)
                  /\ map_file' = (IF write_failure = "map" THEN map_file
                                  ELSE JsonFile(p.ix.doc_map))
                  /\ stats_file' = (IF write_failure # "none" THEN stats_file
                                    ELSE JsonFile(final_stats(p.raw_stats)))
    /\ UNCHANGED << trie_vars, rpn_vars, documents, initial_disk,
                    write_failure, ir, out >>
    /\ UNCHANGED call_vars

\* temp_trie = CompactTrie(); temp_trie.load_from_file(trie_file)
LoadTemp ==
    /\ ix.done \/ ix.raised # "none"
    /\ ~copy.loaded
    /\ LET r == load_from_file(trie_file)
       IN copy' = [loaded |-> TRUE, nodes |-> r.nodes, ret |-> r.ret]
    /\ UNCHANGED << trie, hist, hung, phase, resaved, trie_file >>
    /\ UNCHANGED << rpn_vars, index_vars, stats_file, ir, out >>
    /\ UNCHANGED call_vars

NextIndex ==
    \/ IndexCorpus
    \/ LoadTemp
    \/ (ix.done \/ ix.raised # "none") /\ Construct
    \/ \E ts \in ExampleQueries : Search(ts)

SpecIndex ==
    InitIndex /\ [][NextIndex]_vars

\* The terms of a document, and the documents of the corpus with a term.
TermsOfDoc(doc) ==
    { tf[1] : tf \in Range(tokenize_and_calculate_tf(doc.text)) }

DocsWith(term) ==
    { i \in 1..Len(documents) :
        documents[i].readable /\ term \in TermsOfDoc(documents[i]) }

IndexedTerms ==
    UNION { TermsOfDoc(documents[i]) :
              i \in { j \in 1..Len(documents) : documents[j].readable } }

\* C4: after index_corpus on a non-empty corpus with no artifact files, a
\* retriever constructed from the written files is ready, and a trie loaded
\* from the written index file has, for each indexed term, one posting per
\* document with the term.
C4_IndexedFilesLoad ==
    (ix.done /\ initial_disk = "none" /\ IndexedTerms # {}) =>
        /\ ir.constructed => ir.is_ready
        /\ copy.loaded =>
              \A term \in IndexedTerms :
                  Len(find(copy.nodes, term)) = Cardinality(DocsWith(term))

\* ------------------------------------------------------------------------
\* The order of the list search returns
\* ------------------------------------------------------------------------
\* The relevance of a returned document for the query searched.
RelevanceOf(doc_id) ==
    Relevance(ir.trie, ir.global_stats, QueryTerms(Render(out.query)), doc_id)

\* C11: the list search returns is in non-increasing order of relevance,
\* the mean z-score of the query terms a document contains; on the example
\* corpus 'car OR house' puts documents 2 and 3 before document 1.
C11_RankedByRelevance ==
    (out.searched /\ ir.is_ready) =>
        /\ \A i, j \in 1..Len(out.result) :
               i < j => ~RLess(RelevanceOf(out.result[i]),
                               RelevanceOf(out.result[j]))
        /\ (out.query = << car, OR, house >>
            /\ trie_file = ExampleTrieFile /\ stats_file = ExampleStatsFile) =>
               /\ Len(out.result) = 3
               /\ out.result[3] = 1

\* 'car OR house' has been searched on the example index, the matching set
\* iterated from document 1 on.
C11_Witness ==
    /\ out.searched /\ ir.is_ready
    /\ trie_file = ExampleTrieFile /\ stats_file = ExampleStatsFile
    /\ out.query = << car, OR, house >>
    /\ out.result = << 2, 3, 1 >>
    /\ RelevanceOf(1) = << 0 - 1, 1 >>
    /\ RelevanceOf(2) = << 1, 1 >>

\* ------------------------------------------------------------------------
\* _rank_results and _calculate_z_score called on their own
\* ------------------------------------------------------------------------
the == << "t", "h", "e" >>

\* A statistics file whose entry for 'car' has a negative sigma.
NegativeSigmaStatsFile ==
    JsonFile([ExampleIndex.global_stats EXCEPT ![car].sigma = << 0 - 1, 2 >>])

\* The statistics files: that of the example corpus, one with no entry at
\* all, one with a negative sigma.
ScoreStatsFiles ==
    { ExampleStatsFile, JsonFile(NoStats), NegativeSigmaStatsFile }

\* Candidate sets: document ids of the corpus and ids with no document.
CandidateSets ==
    SUBSET (1..MaxDocId)

\* Query terms: in one, two or no document of the corpus.
RankTerms ==
    { car, blue, green, dog }

ScoreTerms ==
    { car, blue, the, dog }

InitScore ==
    /\ trie_file = ExampleTrieFile
    /\ stats_file \in ScoreStatsFiles
    /\ ir = InformationRetriever(trie_file, stats_file)
    /\ out = NoSearch
    /\ rank = NoRank
    /\ zcall = NoZ
    /\ IdleTrie /\ IdleRpn /\ IdleIndex

\* self._rank_results(doc_ids, query_terms), the set iterated in the order
\* doc_ids.
RankResults(doc_ids, query_terms) ==
    /\ ~rank.called /\ ~zcall.called
    /\ rank' = [called |-> TRUE, doc_ids |-> doc_ids,
                query_terms |-> query_terms,
                result |-> rank_results(ir.trie, ir.global_stats,
                                        doc_ids, query_terms)]
    /\ UNCHANGED << trie_vars, trie_file, rpn_vars, index_vars, stats_file,
                    ir, out, zcall >>

\* self._calculate_z_score(tf, term)
CalculateZScore(tf, term) ==
    /\ ~rank.called /\ ~zcall.called
    /\ zcall' = [called |-> TRUE, tf |-> tf, term |-> term,
                 result |-> calculate_z_score(ir.global_stats, tf, term)]
    /\ UNCHANGED << trie_vars, trie_file, rpn_vars, index_vars, stats_file,
                    ir, out, rank >>

NextScore ==
    \/ \E S \in CandidateSets, query_terms \in SUBSET RankTerms :
          \E doc_ids \in Orders(S) : RankResults(doc_ids, query_terms)
    \/ \E tf \in 0..MaxTf, term \in ScoreTerms : CalculateZScore(tf, term)

SpecScore ==
    InitScore /\ [][NextScore]_vars

\* The candidate has a posting with tf > 0 for one of the query terms.
HasQueryTerm(doc_id) ==
    \E term \in rank.query_terms :
        \E k \in 1..Len(find(ir.trie, term)) :
            /\ find(ir.trie, term)[k][1] = doc_id
            /\ find(ir.trie, term)[k][2] > 0

\* C12: _rank_results returns each candidate with tf > 0 for a query term
\* exactly once, and nothing else: no candidate without a query term and
\* no id outside the candidate set.
C12_RankKeepsExactlyContaining ==
    rank.called =>
        /\ \A d \in Range(rank.doc_ids) :
               HasQueryTerm(d) => Count(rank.result, d) = 1
        /\ \A i \in 1..Len(rank.result) :
               /\ rank.result[i] \in Range(rank.doc_ids)
               /\ HasQueryTerm(rank.result[i])
               /\ Count(rank.result, rank.result[i]) = 1

\* The candidates 1, 2, 3 and 4 ranked for 'car' and 'green': 1, 2 and 3
\* are kept, 4, which has no document, is dropped.
C12_Witness ==
    /\ rank.called
    /\ stats_file = ExampleStatsFile
    /\ rank.doc_ids = << 1, 2, 3, 4 >>
    /\ rank.query_terms = { car, green }
    /\ Range(rank.result) = { 1, 2, 3 }
    /\ Len(rank.result) = 3

RECURSIVE SumTf(_)
SumTf(index_list) ==
    IF Len(index_list) = 0 THEN 0
    ELSE index_list[1][2] + SumTf(Tail(index_list))

RECURSIVE SumTf2(_)
SumTf2(index_list) ==
    IF Len(index_list) = 0 THEN 0
    ELSE index_list[1][2] * index_list[1][2] + SumTf2(Tail(index_list))

RSquare(a) ==
    << a[1] * a[1], a[2] * a[2] >>

\* sigma is the square root of max(0, v), to the precision of the root.
IsRootOf(sigma, v) ==
    IF RLess(v, RInt(0)) THEN sigma = RInt(0)
    ELSE /\ ~RLess(sigma, RInt(0))
         /\ ~RLess(v, RSquare(sigma))
         /\ RLess(v, RSquare(RAdd(sigma, Rat(1, v[2] * SqrtScale))))

\* df, mu and sigma are those of the posting list.
StatsOfPostings(stats, index_list) ==
    /\ stats.df = Len(index_list)
    /\ stats.df > 0
    /\ stats.mu[1] * stats.df = SumTf(index_list) * stats.mu[2]
    /\ IsRootOf(stats.sigma,
                RSub(Rat(SumTf2(index_list), stats.df), RSquare(stats.mu)))

\* C14: after index_corpus has built an index, the df of every term is the
\* length of its posting list in the trie, mu * df is the sum of the tf
\* values of the list and sigma squared is max(0, sum of tf squared / df
\* - mu squared).
C14_StatsMatchPostings ==
    (ix.done /\ ix.rebuilt) =>
        \A term \in DOMAIN ix.global_stats :
            StatsOfPostings(ix.global_stats[term], find(ix.trie, term))

\* The same for a build that found no artifact file.
C14_FromNoFiles ==
    (ix.done /\ ix.rebuilt /\ initial_disk = "none") =>
        \A term \in DOMAIN ix.global_stats :
            StatsOfPostings(ix.global_stats[term], find(ix.trie, term))

\* The terms of the example corpus.
ExampleTerms ==
    UNION { TermsOfDoc(doc) : doc \in ExampleDocs }

\* No document id is twice in the posting list.
DistinctDocIds(index_list) ==
    \A i, j \in 1..Len(index_list) :
        index_list[i][1] = index_list[j][1] => i = j

\* C15: after index_corpus, whatever artifact files it found, every posting
\* list of the indexer's trie holds each document id at most once.
C15_DocIdOncePerList ==
    ix.done =>
        \A term \in ExampleTerms : DistinctDocIds(find(ix.trie, term))

\* What pass 1 leaves in an indexer that has loaded nothing.
FreshBuild ==
    index_documents(Indexer, NoStats, documents, 1).ix

\* C16: index_corpus skips the rebuild only when the three artifacts load;
\* in every other case the trie and the document map hold exactly what the
\* pass over the corpus produced, and nothing of a file loaded before.
C16_RebuildFromScratch ==
    ix.done =>
        /\ ~ix.rebuilt <=> initial_disk = "complete"
        /\ ix.rebuilt =>
              /\ ix.doc_map = FreshBuild.doc_map
              /\ \A term \in ExampleTerms :
                     find(ix.trie, term) = find(FreshBuild.trie, term)

\* Writing the index file raised inside save_to_file.
TrieWriteFailed ==
    pre_order_serialize_serialize(ix.trie, root, << >>).raised

\* C17: when writing the index file, the document map or the statistics
\* fails, index_corpus does not end as a finished build: the failure
\* reaches the caller.
C17_WriteFailureReachesCaller ==
    (ix.rebuilt /\ (TrieWriteFailed \/ write_failure # "none")) =>
        ~ix.done /\ ix.raised # "none"

\* The same for the document map and the statistics alone.
C17_JsonWriteFailureReachesCaller ==
    (ix.rebuilt /\ write_failure # "none") =>
        ~ix.done /\ ix.raised # "none"

\* ------------------------------------------------------------------------
\* Index files with lines after the last declared child
\* ------------------------------------------------------------------------
\* The number of children a line of the index file declares.
DeclaredChildren(line) ==
    LET fields == Split(Strip(line), "|")
    IN IF Len(fields) = 4 /\ IsInt(fields[3]) THEN ParseInt(fields[3]) ELSE 0

\* The nodes still to come after the first n lines: one root, and for each
\* line read the children it declares.
RECURSIVE NodesToCome(_, _)
NodesToCome(lines, n) ==
    IF n = 0 THEN 1
    ELSE NodesToCome(lines, n - 1) - 1 + DeclaredChildren(lines[n])

\* Lines remain after the line that completes the tree.
TrailingInput(file) ==
    /\ file.exists
    /\ \E n \in 1..(Len(file.lines) - 1) : NodesToCome(file.lines, n) = 0

\* C18: an index file with input left after the parent stack has become
\* empty is a format error: loading it reports failure, so the retriever
\* constructed from it is not ready.
C18_TrailingInputRejected ==
    (ir.constructed /\ TrailingInput(trie_file)) =>
        /\ load_from_file(trie_file).ret = "False"
        /\ ~ir.is_ready

\* ------------------------------------------------------------------------
\* Document ids and documents that cannot be read
\* ------------------------------------------------------------------------
\* The posting list has the posting <<doc_id, tf>>.
HasPosting(index_list, doc_id, tf) ==
    \E k \in 1..Len(index_list) : index_list[k] = << doc_id, tf >>

\* The document ids of a posting list.
DocIdsIn(index_list) ==
    { index_list[k][1] : k \in 1..Len(index_list) }

\* The number of times the term is in the text.
TfIn(doc, term) ==
    TfOf(tokenize_and_calculate_tf(doc.text), term)

\* C19: a document that cannot be read is skipped and indexing goes on
\* with the next one; its id is not given to a later document, so the i-th
\* file of the traversal has the id i, read or not.
C19_SkippedIdsNotReused ==
    ix.rebuilt =>
        \A i \in 1..Len(documents) :
            /\ i \in DOMAIN ix.doc_map
            /\ ix.doc_map[i] = documents[i].path
            /\ documents[i].readable =>
                  \A term \in TermsOfDoc(documents[i]) :
                      HasPosting(find(ix.trie, term), i,
                                 TfIn(documents[i], term))
            /\ (~documents[i].readable /\ initial_disk = "none") =>
                  \A term \in ExampleTerms :
                      i \notin DocIdsIn(find(ix.trie, term))

\* A build from no artifact file whose first file could not be read and
\* whose second could: the second file has the id 2.
C19_Witness ==
    /\ ix.done /\ ix.rebuilt /\ initial_disk = "none"
    /\ Len(documents) = 3
    /\ ~documents[1].readable /\ documents[2].readable
    /\ documents[2].path = "d3.txt"
    /\ ix.doc_map[1] = documents[1].path
    /\ ix.doc_map[2] = "d3.txt"
    /\ HasPosting(find(ix.trie, house), 2, 2)
    /\ find(ix.trie, blue) = << >>

\* ------------------------------------------------------------------------
\* The relevances of '(car AND blue) OR green' on the example corpus
\* ------------------------------------------------------------------------
\* '(car AND blue) OR green' has been searched on the example index.
SearchedCarBlueGreen ==
    /\ out.searched /\ ir.is_ready
    /\ out.query = << LPAREN, car, AND, blue, RPAREN, OR, green >>
    /\ trie_file = ExampleTrieFile /\ stats_file = ExampleStatsFile

RankRelevanceOf(doc_id) ==
    Relevance(ir.trie, ir.global_stats, rank.query_terms, doc_id)

\* C21: two documents of equal relevance are returned in ascending order
\* of their ids, whatever the order in which the candidate set is
\* iterated, so that the list depends on the index and the query alone.
C21_TiesByAscendingDocId ==
    rank.called =>
        \A i, j \in 1..Len(rank.result) :
            (i < j /\ REq(RankRelevanceOf(rank.result[i]),
                          RankRelevanceOf(rank.result[j])))
                => rank.result[i] < rank.result[j]

\* ------------------------------------------------------------------------
\* The child counts of a saved file
\* ------------------------------------------------------------------------
\* The nodes of a subtree in pre-order, children in key order.
RECURSIVE PreOrderNodes(_, _)
RECURSIVE PreOrderNodesOf(_, _, _)
PreOrderNodesOf(nodes, node, keys) ==
    IF Len(keys) = 0 THEN << >>
    ELSE PreOrderNodes(nodes, nodes[node].children[keys[1]])
         \o PreOrderNodesOf(nodes, node, Tail(keys))

PreOrderNodes(nodes, node) ==
    << node >>
    \o PreOrderNodesOf(nodes, node, SortedKeys(DOMAIN nodes[node].children))

\* The lines encode one tree in pre-order: reading them, children remain
\* to be read after every line but the last, and none after the last.
WellFormedPreOrder(lines) ==
    /\ Len(lines) > 0
    /\ \A n \in 1..(Len(lines) - 1) : NodesToCome(lines, n) > 0
    /\ NodesToCome(lines, Len(lines)) = 0

\* The lines are one per node of the trie, in pre-order, each declaring
\* as many children as its node has.
CountsMatch(lines, nodes) ==
    LET order == PreOrderNodes(nodes, root)
    IN /\ Len(lines) = Len(order)
       /\ \A k \in 1..Len(lines) :
              /\ Len(Split(Strip(lines[k]), "|")) = 4
              /\ IsInt(Split(Strip(lines[k]), "|")[3])
              /\ DeclaredChildren(lines[k])
                     = Cardinality(DOMAIN nodes[order[k]].children)

\* C22: in the file save_to_file writes, every line declares the number of
\* direct children of its node, which follow it in pre-order, so the lines
\* are a well-formed pre-order encoding that load_from_file reads with its
\* stack becoming empty exactly at the last line.
C22_SavedCountsWellFormed ==
    phase # "build" =>
        /\ trie_file.exists
        /\ CountsMatch(trie_file.lines, trie)
        /\ WellFormedPreOrder(trie_file.lines)
        /\ Truthy(load_from_file(trie_file).ret)

\* The documented format, with the recursion of pre_order_serialize
\* calling pre_order_serialize itself, has the property: the counts match
\* the nodes and load_from_file reads the lines to the last one.
C22_DocumentedFormatWellFormed ==
    LET lines == PreOrderLines(trie, root)
    IN /\ CountsMatch(lines, trie)
       /\ WellFormedPreOrder(lines)
       /\ Truthy(load_from_file(File(lines)).ret)
       /\ Len(load_from_file(File(lines)).nodes) = Len(trie)

\* ------------------------------------------------------------------------
\* The shape of the trie
\* ------------------------------------------------------------------------
\* C23: after any sequence of inserts on an empty trie, a non-root node
\* that is not terminal has no posting and at least two children, no
\* non-root node has a single child and no posting, and the root is not
\* terminal and has the empty label.
C23_PathCompressed ==
    /\ \A n \in 2..Len(trie) :
           /\ ~trie[n].is_terminal =>
                  /\ trie[n].inverted_index = << >>
                  /\ Cardinality(DOMAIN trie[n].children) >= 2
           /\ ~(/\ Cardinality(DOMAIN trie[n].children) = 1
                /\ trie[n].inverted_index = << >>)
    /\ ~trie[root].is_terminal
    /\ trie[root].label = << >>
    /\ trie[root].inverted_index = << >>

\* car, cat and cartoon inserted: the split node 'ca' is not terminal and
\* has the two children 'r' and 't', and 'r' is terminal with one child.
C23_Witness ==
    /\ Len(hist) = 3
    /\ hist[1][1] = car /\ hist[2][1] = cat /\ hist[3][1] = cartoon
    /\ \E n \in 2..Len(trie) :
          /\ trie[n].label = ca
          /\ ~trie[n].is_terminal
          /\ DOMAIN trie[n].children = { "r", "t" }
    /\ \E n \in 2..Len(trie) :
          /\ trie[n].label = << "r" >>
          /\ trie[n].is_terminal
          /\ DOMAIN trie[n].children = { "t" }

\* ------------------------------------------------------------------------
\* The same terms inserted in another order
\* ------------------------------------------------------------------------
\* The trie built from the empty trie by a sequence of insert calls.
RECURSIVE Build(_)
Build(h) ==
    IF Len(h) = 0 THEN CompactTrie
    ELSE LET last == h[Len(h)]
         IN insert(Build(Take(h, Len(h) - 1)), last[1], last[2], last[3]).nodes

\* The calls of h in the order p.
Permuted(h, p) ==
    [i \in 1..Len(h) |-> h[p[i]]]

\* The sequences of the same insert calls as h that give every term the
\* posting list h gives it.
Reorderings(h) ==
    { Permuted(h, p) : p \in
          { q \in Orders(1..Len(h)) :
                \A w \in Words :
                    PostingsOf(Permuted(h, q), w) = PostingsOf(h, w) } }

\* The structure under a node, without the positions of the nodes: label,
\* terminal flag, postings and, per key character, the child's structure.
RECURSIVE Shape(_, _)
Shape(nodes, node) ==
    [label |-> nodes[node].label,
     is_terminal |-> nodes[node].is_terminal,
     inverted_index |-> nodes[node].inverted_index,
     children |-> [ch \in DOMAIN nodes[node].children |->
                      Shape(nodes, nodes[node].children[ch])]]

\* The label field of every line.
LabelsOf(lines) ==
    [k \in 1..Len(lines) |-> Split(lines[k], "|")[1]]

\* The lines are those of the nodes in pre-order, the children of every
\* node in ascending order of their key character.
ChildrenInKeyOrder(lines, nodes) ==
    LET order == PreOrderNodes(nodes, root)
    IN LabelsOf(lines) = [k \in 1..Len(order) |-> nodes[order[k]].label]

\* C24: tries built by inserting the same terms with the same postings in
\* different orders have the same node structure, and save_to_file writes
\* the same output for them, the children of every node in ascending order
\* of their key character.
C24_CanonicalSerialization ==
    phase # "build" =>
        /\ \A h \in Reorderings(hist) :
               /\ Shape(Build(h), root) = Shape(trie, root)
               /\ save_to_file(Build(h)) = trie_file
        /\ ChildrenInKeyOrder(trie_file.lines, trie)

\* The node structure is canonical: every reordering of the inserts that
\* keeps the posting list of every term builds the same structure, whose
\* documented serialization is the same line for line, children in key
\* order.
C24_StructureCanonical ==
    /\ \A h \in Reorderings(hist) :
           /\ Shape(Build(h), root) = Shape(trie, root)
           /\ PreOrderLines(Build(h), root) = PreOrderLines(trie, root)
    /\ ChildrenInKeyOrder(PreOrderLines(trie, root), trie)

\* ------------------------------------------------------------------------
\* Index files that end before the declared children have been read
\* ------------------------------------------------------------------------
\* Every line has the four fields and a child count, and children are
\* still to come after the last line.
EndsEarly(file) ==
    /\ file.exists
    /\ Len(file.lines) > 0
    /\ \A n \in 1..Len(file.lines) :
           /\ Len(Split(Strip(file.lines[n]), "|")) = 4
           /\ IsInt(Split(Strip(file.lines[n]), "|")[3])
           /\ NodesToCome(file.lines, n) > 0

\* C25: an index file that ends with the parent stack not empty violates
\* the format: loading it reports failure instead of returning True with
\* a partly built trie, so the retriever constructed from it is not ready.
C25_TruncatedInputRejected ==
    (ir.constructed /\ EndsEarly(trie_file)) =>
        /\ ~Truthy(load_from_file(trie_file).ret)
        /\ ~ir.is_ready

\* ------------------------------------------------------------------------
\* Every insert returns
\* ------------------------------------------------------------------------
\* Every child is stored under the first character of its label, which is
\* not empty.
KeyedByFirstChar(nodes) ==
    \A n \in 1..Len(nodes) :
        \A ch \in DOMAIN nodes[n].children :
            LET label == nodes[nodes[n].children[ch]].label
            IN Len(label) > 0 /\ label[1] = ch

\* The postings of the node at position n, none when there is no such node.
PostingsAt(nodes, n) ==
    IF n <= Len(nodes) THEN nodes[n].inverted_index ELSE << >>

\* The nodes whose postings an insert call has changed.
Touched(before, after) ==
    { n \in 1..Len(after) : after[n].inverted_index # PostingsAt(before, n) }

\* C26: an insert of a non-empty word on a trie built by inserts returns,
\* and adds exactly one posting to exactly one node; every child is stored
\* under the first character of its non-empty label, so the common prefix
\* with the matching child is at least one character long and one of the
\* cases of the loop applies.
C26_InsertReturnsWithOnePosting ==
    [][hist' # hist =>
          LET call == hist'[Len(hist')]
          IN /\ ~hung'
             /\ Len(trie') >= Len(trie)
             /\ Cardinality(Touched(trie, trie')) = 1
             /\ \A n \in Touched(trie, trie') :
                    trie'[n].inverted_index =
                        Append(PostingsAt(trie, n), <<call[2], call[3]>>)
             /\ KeyedByFirstChar(trie')
             /\ \A n \in 1..Len(trie') :
                    \A ch \in DOMAIN trie'[n].children :
                        find_mismatch_point(
                            << ch >>, trie'[trie'[n].children[ch]].label) = 1]_vars

\* car, then cartoon, which goes down through the node 'car' before it
\* adds its node, then ca, which splits 'car': three calls have returned
\* and three nodes hold one posting each.
C26_Witness ==
    /\ Len(hist) = 3
    /\ hist[1][1] = car /\ hist[2][1] = cartoon /\ hist[3][1] = ca
    /\ ~hung
    /\ KeyedByFirstChar(trie)
    /\ Cardinality({ n \in 1..Len(trie) : Len(trie[n].inverted_index) = 1 }) = 3
    /\ Len(trie) = 4

====
